---------------------------- MODULE Spec2Model ----------------------------
(***************************************************************************)
(* Model of src/cli/commands/run.js: the `run` command of the package      *)
(* manager.  run() builds a name -> command table from the .bin folders    *)
(* and from the manifest's scripts, then runCommand() resolves an action   *)
(* to an ordered list of [stage, cmd] pairs and executes them one after    *)
(* the other.                                                              *)
(*                                                                         *)
(* Text (names, command lines, paths) is a tuple of one-character strings, *)
(* so that concatenation, prefixing, quoting and edit distance are         *)
(* computed and not assumed.                                               *)
(***************************************************************************)
EXTENDS Integers, Sequences, FiniteSets, TLC

(***************************************************************************)
(* Bounds of the model.                                                    *)
(***************************************************************************)
MaxFolders == 2     \* .bin folders marked for analysis

(***************************************************************************)
(* Texts used as inputs.                                                   *)
(***************************************************************************)
sBuild          == <<"b","u","i","l","d">>
sBuld           == <<"b","u","l","d">>
sEnv            == <<"e","n","v">>
sConstructor    == <<"c","o","n","s","t","r","u","c","t","o","r">>
sToString       == <<"t","o","S","t","r","i","n","g">>
sPre            == <<"p","r","e">>
sPost           == <<"p","o","s","t">>
sCompile        == <<"c","o","m","p","i","l","e">>
sClean          == <<"c","l","e","a","n">>
sNotify         == <<"n","o","t","i","f","y">>
sFast           == <<"-","-","f","a","s","t">>
sTwoWords       == <<"a"," ","b">>
sSpace          == <<" ">>
sSlash          == <<"/">>
sQuote          == <<"'">>
sFalse          == <<"f","a","l","s","e">>

\* The value of a missing Map entry or of a missing property.  It is not a
\* text: its only element is not a single character.
undefined == <<"undefined">>

\* The value of a property inherited from Object.prototype (a function).
inheritedFunction == <<"[Function]">>

(***************************************************************************)
(* Text helpers.                                                           *)
(***************************************************************************)
\* Code-unit order of the characters the inputs use.
Chars ==
  << " ", "'", "-", "/", "1", "2", "3", "4", "S", "\\",
     "a", "b", "c", "d", "e", "f", "g", "i", "l", "m",
     "n", "o", "p", "r", "s", "t", "u", "v", "y" >>

CharCode(c) == CHOOSE k \in 1..Len(Chars) : Chars[k] = c

\* a < b as Array.prototype.sort() compares two strings.
RECURSIVE StrLess(_, _)
StrLess(a, b) ==
  IF b = <<>> THEN FALSE
  ELSE IF a = <<>> THEN TRUE
  ELSE IF Head(a) = Head(b) THEN StrLess(Tail(a), Tail(b))
  ELSE CharCode(Head(a)) < CharCode(Head(b))

\* Object.keys(obj).sort(): the set of keys as an ascending sequence.
RECURSIVE SortedKeys(_)
SortedKeys(S) ==
  IF S = {} THEN <<>>
  ELSE LET m == CHOOSE x \in S : \A y \in S \ {x} : StrLess(x, y)
       IN  <<m>> \o SortedKeys(S \ {m})

\* Array.prototype.join(sep)
RECURSIVE Join(_, _)
Join(ws, sep) ==
  IF ws = <<>> THEN <<>>
  ELSE IF Len(ws) = 1 THEN ws[1]
  ELSE ws[1] \o sep \o Join(Tail(ws), sep)

\* String.prototype.split(' '): cut at every single space; two adjacent
\* spaces, a leading or a trailing space give an empty token.
RECURSIVE SplitFrom(_, _)
SplitFrom(s, cur) ==
  IF s = <<>> THEN <<cur>>
  ELSE IF Head(s) = " " THEN <<cur>> \o SplitFrom(Tail(s), <<>>)
  ELSE SplitFrom(Tail(s), Append(cur, Head(s)))

Split(s) == SplitFrom(s, <<>>)

Min3(x, y, z) ==
  IF x <= y /\ x <= z THEN x ELSE IF y <= z THEN y ELSE z

\* One row of the edit-distance table: the distances from a[1..i] to every
\* prefix of b, from the row of a[1..i-1].  acc holds the distances to
\* b[1..0] .. b[1..j-1].  A distance is never negative; testing it makes
\* TLC evaluate m before the next column, which keeps the evaluation flat.
RECURSIVE LevRow(_, _, _, _, _)
LevRow(prev, c, b, j, acc) ==
  IF Len(acc) > Len(b) THEN acc
  ELSE LET m == Min3(prev[j] + (IF b[j] = c THEN 0 ELSE 1),
                     prev[j + 1] + 1,
                     acc[j] + 1)
       IN  IF m >= 0
           THEN LevRow(prev, c, b, j + 1, Append(acc, m))
           ELSE acc

RECURSIVE LevFrom(_, _, _, _)
LevFrom(a, b, i, row) ==
  IF i > Len(a) \/ Len(row) # Len(b) + 1 THEN row[Len(b) + 1]
  ELSE LevFrom(a, b, i + 1, LevRow(row, a[i], b, 1, <<i>>))

\* leven(a, b): the Levenshtein distance of two strings.
leven(a, b) == LevFrom(a, b, 1, [j \in 1..(Len(b) + 1) |-> j - 1])

\* The characters puka quotes for a POSIX shell, among Chars.
ShMetaChars == {" ", "'", "\\"}

RECURSIVE EscapeQuotes(_)
EscapeQuotes(s) ==
  IF s = <<>> THEN <<>>
  ELSE IF Head(s) = "'" THEN <<"'", "\\", "'", "'">> \o EscapeQuotes(Tail(s))
  ELSE <<Head(s)>> \o EscapeQuotes(Tail(s))

\* puka quoteForShell(text): the empty text becomes '', a text with a shell
\* metacharacter is wrapped in single quotes, any other text is unchanged.
quoteForShell(s) ==
  IF s = <<>> THEN sQuote \o sQuote
  ELSE IF \E k \in 1..Len(s) : s[k] \in ShMetaChars
       THEN sQuote \o EscapeQuotes(s) \o sQuote
       ELSE s

\* path.join(folder, name)
PathJoin(folder, name) == folder \o sSlash \o name

\* sh`${unquoted(cmd)} ${args}`: cmd as it is, a space, then every argument
\* quoted for the shell and joined with spaces.
ShWithArgs(cmd, argv) ==
  cmd \o sSpace \o Join([k \in 1..Len(argv) |-> quoteForShell(argv[k])], sSpace)

\* JavaScript truthiness of a text or of undefined.
Truthy(v) == v # undefined /\ v # <<>>

\* a || b
OrElse(a, b) == IF Truthy(a) THEN a ELSE b

(***************************************************************************)
(* Objects and Maps.                                                       *)
(***************************************************************************)
\* Names every object inherits from Object.prototype (two of them).
ObjectPrototypeNames == {sConstructor, sToString}

\* `name in obj` for a plain object whose own properties are props.
HasProperty(props, name) ==
  name \in DOMAIN props \/ name \in ObjectPrototypeNames

\* obj[name]
GetProperty(props, name) ==
  IF name \in DOMAIN props THEN props[name]
  ELSE IF name \in ObjectPrototypeNames THEN inheritedFunction
  ELSE undefined

\* A Map is the sequence of its entries in insertion order.
MapKeys(m) == {m[k].key : k \in 1..Len(m)}

MapHas(m, key) == \E k \in 1..Len(m) : m[k].key = key

MapGet(m, key) ==
  IF MapHas(m, key)
  THEN m[CHOOSE k \in 1..Len(m) : m[k].key = key /\ \A l \in 1..(k - 1) : m[l].key # key].val
  ELSE undefined

\* Variant of MapSet: an existing key keeps its value.
MapSetIfAbsent(m, key, val) ==
  IF MapHas(m, key) THEN m ELSE Append(m, [key |-> key, val |-> val])

\* Map.prototype.set: replaces the value of an existing key in place,
\* appends a new key.
MapSet(m, key, val) ==
  IF MapHas(m, key)
  THEN [k \in 1..Len(m) |-> IF m[k].key = key THEN [key |-> key, val |-> val] ELSE m[k]]
  ELSE Append(m, [key |-> key, val |-> val])

\* Set.prototype.add on a Set kept as the sequence of its members.
SetAdd(s, x) == IF \E k \in 1..Len(s) : s[k] = x THEN s ELSE Append(s, x)

\* for (const name in map): the enumerable properties of the Map object.
\* The entries of a Map are not properties of it, so there are none.
ForInKeys(m) == <<>>

(***************************************************************************)
(* Inputs of one invocation of run().                                      *)
(***************************************************************************)
\* The invocations of run() in one host process.
Procs == {1, 2}

sPreBuild       == sPre \o sBuild
sPostBuild      == sPost \o sBuild
sPreConstructor == sPre \o sConstructor

\* The names a manifest may declare, each with the bodies it may have.
ScriptNames == {sPreBuild, sBuild, sPostBuild, sEnv, sPreConstructor}

ScriptBodies(name) ==
  IF name = sBuild THEN {<<>>, sCompile}
  ELSE IF name = sPostBuild THEN {sNotify}
  ELSE IF name = sEnv THEN {sCompile}
  ELSE {sClean}

AllBodies == UNION {ScriptBodies(n) : n \in ScriptNames}

\* pkg.scripts: absent from the manifest, or an object of name -> body.
PkgScriptsInputs ==
  {[defined |-> FALSE, props |-> <<>>]} \cup
  {[defined |-> TRUE, props |-> f] :
     f \in {g \in UNION {[S -> AllBodies] : S \in SUBSET ScriptNames} :
              \A n \in DOMAIN g : g[n] \in ScriptBodies(n)}}

\* The names an executable in a .bin folder may have.
BinNames == {sBuild, sConstructor}

Digits == <<"1", "2", "3", "4">>

\* The path of the k-th folder; the paths are distinct (binFolders is a Set)
\* and every second one has a space in it.
FolderPath(k) ==
  sSlash \o (IF k % 2 = 0 THEN <<"a", " ">> ELSE <<"a">>) \o <<Digits[k]>>

\* What fs.exists and fs.readdir answer for one folder: it is missing, it
\* is empty or it lists one executable.
FolderStates ==
  {[exists |-> FALSE, entries |-> <<>>], [exists |-> TRUE, entries |-> <<>>]} \cup
  {[exists |-> TRUE, entries |-> <<n>>] : n \in BinNames}

\* binFolders in iteration order; there is always the registry's folder.
BinFoldersInputs ==
  UNION {[1..n -> FolderStates] : n \in 1..MaxFolders}

\* The action names a user may type.
ActionNames == {sBuild, sEnv, sConstructor, sBuld}

\* The arguments a user may type after the action.
TrailingInputs == {<<>>, <<sFast>>, <<sFast, sTwoWords>>}

\* args of run(): none, or an action followed by trailing arguments.
ArgsInputs ==
  {<<>>} \cup {<<a>> \o t : <<a, t>> \in ActionNames \X TrailingInputs}

\* What the user may answer to the question of the fallback.
Answers ==
  { sBuild,
    sBuild \o sSpace \o sFast,
    sBuild \o sSpace \o sSpace \o sFast,
    sSpace \o sBuild,
    sBuld }

(***************************************************************************)
(* State.  Every variable but wrapOutput has one value per invocation.     *)
(***************************************************************************)
VARIABLES
  live,          \* the invocations that were made
  pkgScripts,    \* pkg.scripts of the manifest read
  binFolders,    \* the .bin folders, in iteration order
  args,          \* the args array (runCommand shifts the action off it)
  scripts,       \* Map name -> command
  binCommands,   \* Set of the names found in .bin folders
  pkgCommands,   \* Set of the names of the manifest's scripts
  folder,        \* index of the folder the loop of line 64 is at
  pc,            \* where the invocation is suspended
  action,        \* the action runCommand shifted off args
  cmds,          \* the [stage, cmd] pairs runCommand built
  started,       \* the execCommand calls made, each with how it ended
  output,        \* the calls made on the reporter
  result,        \* how the promise of run() settled
  wrapOutput     \* process.env.YARN_WRAP_OUTPUT

vars == << live, pkgScripts, binFolders, args, scripts, binCommands,
           pkgCommands, folder, pc, action, cmds, started, output, result,
           wrapOutput >>

inputVars == << live, pkgScripts, binFolders >>

pending  == [kind |-> "pending"]
resolved == [kind |-> "resolved"]

\* One invocation of run(), lines 58-62, with the environment not yet set.
Init ==
  /\ live = {1}
  /\ wrapOutput = undefined
  /\ \E p \in PkgScriptsInputs, b \in BinFoldersInputs, a \in ArgsInputs :
       /\ pkgScripts = [i \in Procs |-> IF i = 1 THEN p ELSE [defined |-> FALSE, props |-> <<>>]]
       /\ binFolders = [i \in Procs |-> IF i = 1 THEN b ELSE [k \in 1..1 |-> [exists |-> FALSE, entries |-> <<>>]]]
       /\ args = [i \in Procs |-> IF i = 1 THEN a ELSE <<>>]
  /\ scripts = [i \in Procs |-> <<>>]
  /\ binCommands = [i \in Procs |-> <<>>]
  /\ pkgCommands = [i \in Procs |-> <<>>]
  /\ folder = [i \in Procs |-> 1]
  /\ pc = [i \in Procs |-> IF i \in live THEN "exists" ELSE "idle"]
  /\ action = [i \in Procs |-> undefined]
  /\ cmds = [i \in Procs |-> <<>>]
  /\ started = [i \in Procs |-> <<>>]
  /\ output = [i \in Procs |-> <<>>]
  /\ result = [i \in Procs |-> pending]

(***************************************************************************)
(* Table construction, lines 63-80.                                        *)
(***************************************************************************)
\* The loop of line 64 moves to the next folder or leaves.
AfterFolder(i) ==
  IF folder[i] < Len(binFolders[i])
  THEN /\ folder' = [folder EXCEPT ![i] = @ + 1]
       /\ pc' = [pc EXCEPT ![i] = "exists"]
  ELSE /\ folder' = folder
       /\ pc' = [pc EXCEPT ![i] = "pkgScripts"]

\* await fs.exists(binFolder)
FsExists(i) ==
  /\ pc[i] = "exists"
  /\ IF binFolders[i][folder[i]].exists
     THEN /\ pc' = [pc EXCEPT ![i] = "readdir"]
          /\ folder' = folder
     ELSE AfterFolder(i)
  /\ UNCHANGED << inputVars, args, scripts, binCommands, pkgCommands, action,
                  cmds, started, output, result, wrapOutput >>

\* scripts.set(name, quoteForShell(path.join(binFolder, name))) for the
\* names of one listing, in the order of the listing.
RECURSIVE SetBinEntries(_, _, _)
SetBinEntries(m, path, names) ==
  IF names = <<>> THEN m
  ELSE SetBinEntries(MapSet(m, Head(names), quoteForShell(PathJoin(path, Head(names)))),
                     path, Tail(names))

RECURSIVE AddAll(_, _)
AddAll(s, names) ==
  IF names = <<>> THEN s ELSE AddAll(SetAdd(s, Head(names)), Tail(names))

\* for (const name of await fs.readdir(binFolder)) { ... }
FsReaddir(i) ==
  /\ pc[i] = "readdir"
  /\ LET names == binFolders[i][folder[i]].entries
     IN  /\ scripts' = [scripts EXCEPT ![i] = SetBinEntries(@, FolderPath(folder[i]), names)]
         /\ binCommands' = [binCommands EXCEPT ![i] = AddAll(@, names)]
  /\ AfterFolder(i)
  /\ UNCHANGED << inputVars, args, pkgCommands, action, cmds, started, output,
                  result, wrapOutput >>

\* scripts.set(name, pkgScripts[name] || '') for the given names in order.
RECURSIVE SetPkgEntries(_, _, _)
SetPkgEntries(m, props, names) ==
  IF names = <<>> THEN m
  ELSE SetPkgEntries(MapSet(m, Head(names), OrElse(props[Head(names)], <<>>)),
                     props, Tail(names))

\* Variant of WithPkgScripts: a name a .bin folder already gave is kept.
WithPkgScriptsKeepBin(m, pkg) ==
  IF pkg.defined
  THEN SetPkgEntries(m, pkg.props,
         SortedKeys({n \in DOMAIN pkg.props : ~MapHas(m, n)}))
  ELSE m

\* The table after the manifest's scripts were added to m, lines 73-80.
WithPkgScripts(m, pkg) ==
  IF pkg.defined THEN SetPkgEntries(m, pkg.props, SortedKeys(DOMAIN pkg.props))
  ELSE m

\* Lines 73-80, then the test of line 142.
ScanPkgScripts(i) ==
  /\ pc[i] = "pkgScripts"
  /\ scripts' = [scripts EXCEPT ![i] = WithPkgScripts(@, pkgScripts[i])]
  /\ pkgCommands' = [pkgCommands EXCEPT ![i] =
        IF pkgScripts[i].defined
        THEN AddAll(@, SortedKeys(DOMAIN pkgScripts[i].props)) ELSE @]
  /\ pc' = [pc EXCEPT ![i] = IF Len(args[i]) = 0 THEN "fallback" ELSE "runCommand"]
  /\ UNCHANGED << inputVars, args, binCommands, folder, action, cmds, started,
                  output, result, wrapOutput >>

\* The table of lines 61-71 when the folders are iterated in the given
\* order (a sequence of indices of folders).
RECURSIVE BinTable(_, _, _)
BinTable(folders, order, m) ==
  IF order = <<>> THEN m
  ELSE LET k == Head(order)
       IN  BinTable(folders, Tail(order),
                    IF folders[k].exists
                    THEN SetBinEntries(m, FolderPath(k), folders[k].entries)
                    ELSE m)

\* The table of lines 61-80 for an iteration order of the folders.
FinalTable(folders, order, pkg) ==
  WithPkgScripts(BinTable(folders, order, <<>>), pkg)

(***************************************************************************)
(* runCommand, lines 82-139.                                               *)
(***************************************************************************)
Step(stage, cmd) == [stage |-> stage, cmd |-> cmd]

\* One call made on the reporter.
Report(level, key, data) == [level |-> level, key |-> key, data |-> data]

\* The question of line 163 was asked.
Asked(out) == \E k \in 1..Len(out) : out[k].level = "question"

\* action in pkgScripts, guarded by pkgScripts being there (line 88).
InPkgScripts(pkg, name) == pkg.defined /\ HasProperty(pkg.props, name)

\* Lines 86-106: the list of commands for an action, or thrown |-> TRUE
\* when invariant(script, 'Script must exist') fails.
BuildCmds(pkg, table, act) ==
  LET preAction  == sPre \o act
      postAction == sPost \o act
      script     == MapGet(table, act)
      pre  == IF HasProperty(pkg.props, preAction)
              THEN <<Step(preAction, GetProperty(pkg.props, preAction))>> ELSE <<>>
      post == IF HasProperty(pkg.props, postAction)
              THEN <<Step(postAction, GetProperty(pkg.props, postAction))>> ELSE <<>>
  IN  IF InPkgScripts(pkg, act)
      THEN IF Truthy(script)
           THEN [thrown |-> FALSE, cmds |-> pre \o <<Step(act, script)>> \o post]
           ELSE [thrown |-> TRUE, cmds |-> pre]
      ELSE IF MapHas(table, act)
      THEN IF Truthy(script)
           THEN [thrown |-> FALSE, cmds |-> <<Step(act, script)>>]
           ELSE [thrown |-> TRUE, cmds |-> <<>>]
      ELSE [thrown |-> FALSE, cmds |-> <<>>]

\* Variant of CmdWithArgs: every stage gets the trailing arguments.
CmdWithArgsEveryStage(step, act, argv) == ShWithArgs(step.cmd, argv)

\* Line 113: the command line execCommand is given for one pair.
CmdWithArgs(step, act, argv) ==
  IF step.stage = act THEN ShWithArgs(step.cmd, argv) ELSE step.cmd

\* Lines 124-131: the last name of the loop at distance below 2.
RECURSIVE Suggest(_, _, _)
Suggest(names, act, suggestion) ==
  IF names = <<>> THEN suggestion
  ELSE Suggest(Tail(names), act,
               IF leven(Head(names), act) < 2 THEN Head(names) ELSE suggestion)

\* Lines 133-137: the MessageError thrown for an unknown action.  The text
\* is `Command <action> not found.`, followed by ` Did you mean <suggestion>?`
\* when there is a suggestion.
CommandNotFound(act, suggestion) ==
  [kind |-> "MessageError", text |-> "Command not found", action |-> act,
   didYouMean |-> IF Truthy(suggestion) THEN suggestion ELSE undefined]

InvariantViolation(text) == [kind |-> "InvariantViolation", text |-> text]

\* Variant of Branch: no built-in action.
BranchWithoutEnv(built, act) ==
  IF built.thrown THEN "throw"
  ELSE IF Len(built.cmds) > 0 THEN "exec"
  ELSE "notFound"

\* Lines 108, 121 and 123: what runCommand does with the list it built.
Branch(built, act) ==
  IF built.thrown THEN "throw"
  ELSE IF Len(built.cmds) > 0 THEN "exec"
  ELSE IF act = sEnv THEN "env"
  ELSE "notFound"

\* Variant of FlagAfter: the assignment of line 110 is missing.
FlagAfterNeverSet(branch, flag) == flag

\* Variant of FlagAfter: the assignment of line 110 is made before the test
\* of line 108.
FlagAfterAlwaysSet(branch, flag) == sFalse

\* Line 110: process.env.YARN_WRAP_OUTPUT after runCommand chose its branch.
FlagAfter(branch, flag) == IF branch = "exec" THEN sFalse ELSE flag

\* Variant of Rejection: the second callback of then() at line 164 is
\* attached with catch() after it and also takes the errors of runCommand.
RejectionCaughtAfterQuestion(out, err) ==
  IF Asked(out)
  THEN [result |-> [kind |-> "resolved"],
        output |-> Append(out, Report("error", "commandNotSpecified", <<>>))]
  ELSE [result |-> err, output |-> out]

\* An error thrown in runCommand: it rejects the promise of runCommand,
\* which run returns at line 170 or, at line 164, the first callback of
\* then() returns, where the second callback does not apply to it.
Rejection(out, err) == [result |-> err, output |-> out]

\* The synchronous start of runCommand(args): lines 83-110, and for an
\* action without commands lines 121-137 up to the first await.
RunCommand(i) ==
  /\ pc[i] = "runCommand"
  /\ LET act    == Head(args[i])
         built  == BuildCmds(pkgScripts[i], scripts[i], act)
         branch == Branch(built, act)
     IN  /\ action' = [action EXCEPT ![i] = act]
         /\ args' = [args EXCEPT ![i] = Tail(@)]
         /\ cmds' = [cmds EXCEPT ![i] = built.cmds]
         /\ wrapOutput' = FlagAfter(branch, wrapOutput)
         /\ pc' = [pc EXCEPT ![i] =
               IF branch = "exec" THEN "exec"
               ELSE IF branch = "env" THEN "makeEnv"
               ELSE "done"]
         /\ IF branch \in {"throw", "notFound"}
            THEN LET err == IF branch = "throw"
                            THEN InvariantViolation("Script must exist")
                            ELSE CommandNotFound(act, Suggest(ForInKeys(scripts[i]), act, undefined))
                     rej == Rejection(output[i], err)
                 IN  /\ result' = [result EXCEPT ![i] = rej.result]
                     /\ output' = [output EXCEPT ![i] = rej.output]
            ELSE UNCHANGED << result, output >>
  /\ UNCHANGED << inputVars, scripts, binCommands, pkgCommands, folder, started >>

\* Variant of CanStart: the call of the loop is not awaited.
CanStartUnawaited(p) == p \in {"exec", "await"}

\* The loop of line 111 makes its next call when no call is awaited.
CanStart(p) == p = "exec"

\* execCommand(stage, config, cmdWithArgs, config.cwd[, customShell]) is
\* called for the next pair; both branches of line 115 make this call.
ExecStart(i) ==
  /\ CanStart(pc[i])
  /\ Len(started[i]) < Len(cmds[i])
  /\ LET step == cmds[i][Len(started[i]) + 1]
     IN  started' = [started EXCEPT ![i] =
            Append(@, [stage |-> step.stage,
                       cmd |-> CmdWithArgs(step, action[i], args[i]),
                       state |-> "running"])]
  /\ pc' = [pc EXCEPT ![i] = "await"]
  /\ UNCHANGED << inputVars, args, scripts, binCommands, pkgCommands, folder,
                  action, cmds, output, result, wrapOutput >>

\* The first call still running.
Running(log) == {k \in 1..Len(log) : log[k].state = "running"}

FirstRunning(log) == CHOOSE k \in Running(log) : \A l \in Running(log) : k <= l

\* Variant of AfterFailure: the rejection is caught inside the loop, which
\* goes on while pairs are left.
AfterFailureSwallowed(log, plan) ==
  IF Len(log) < Len(plan) THEN "exec" ELSE "done"

\* Where the loop goes when the awaited execCommand failed: the rejection
\* leaves the loop and runCommand.
AfterFailure(log, plan) == "done"

\* The awaited execCommand resolved: next iteration, or runCommand returns.
ExecDone(i) ==
  /\ pc[i] = "await"
  /\ Running(started[i]) # {}
  /\ LET k == FirstRunning(started[i])
     IN  started' = [started EXCEPT ![i] = [@ EXCEPT ![k].state = "done"]]
  /\ IF Len(started[i]) < Len(cmds[i])
     THEN /\ pc' = [pc EXCEPT ![i] = "exec"]
          /\ UNCHANGED result
     ELSE /\ pc' = [pc EXCEPT ![i] = "done"]
          /\ result' = [result EXCEPT ![i] = resolved]
  /\ UNCHANGED << inputVars, args, scripts, binCommands, pkgCommands, folder,
                  action, cmds, output, wrapOutput >>

\* The awaited execCommand rejected: the error leaves the loop, runCommand
\* and run.
ExecFail(i) ==
  /\ pc[i] = "await"
  /\ Running(started[i]) # {}
  /\ LET k == FirstRunning(started[i])
     IN  started' = [started EXCEPT ![i] = [@ EXCEPT ![k].state = "failed"]]
  /\ LET next == AfterFailure(started[i], cmds[i])
         rej  == Rejection(output[i],
                   [kind |-> "ExecError", stage |-> started[i][FirstRunning(started[i])].stage])
     IN  /\ pc' = [pc EXCEPT ![i] = next]
         /\ IF next = "done"
            THEN /\ result' = [result EXCEPT ![i] = rej.result]
                 /\ output' = [output EXCEPT ![i] = rej.output]
            ELSE UNCHANGED << result, output >>
  /\ UNCHANGED << inputVars, args, scripts, binCommands, pkgCommands, folder,
                  action, cmds, wrapOutput >>

\* Line 122: makeEnv resolved and its result is logged.
LogEnv(i) ==
  /\ pc[i] = "makeEnv"
  /\ output' = [output EXCEPT ![i] = Append(@, [level |-> "log", key |-> "env", data |-> <<>>])]
  /\ pc' = [pc EXCEPT ![i] = "done"]
  /\ result' = [result EXCEPT ![i] = resolved]
  /\ UNCHANGED << inputVars, args, scripts, binCommands, pkgCommands, folder,
                  action, cmds, started, wrapOutput >>

(***************************************************************************)
(* No script specified, lines 141-168.                                     *)
(***************************************************************************)
\* printedCommands of lines 151-157 as the entries of the Map, or
\* thrown |-> TRUE when invariant(action, 'Action must exists') fails.
RECURSIVE PrintedCommands(_, _, _)
PrintedCommands(table, names, printed) ==
  IF names = <<>> THEN [thrown |-> FALSE, map |-> printed]
  ELSE LET act == MapGet(table, Head(names))
       IN  IF Truthy(act)
           THEN PrintedCommands(table, Tail(names), MapSet(printed, Head(names), act))
           ELSE [thrown |-> TRUE, map |-> printed]

\* Variant of OffersQuestion: the question is asked whatever pkgCommands has.
OffersQuestionAlways(names) == TRUE

\* Line 159: the question is asked when the manifest has scripts.
OffersQuestion(names) == Len(names) > 0

\* Lines 143-167 up to the question, or to the end when none is asked.
Fallback(i) ==
  /\ pc[i] = "fallback"
  /\ LET head == << Report("error", "commandNotSpecified", <<>>),
                    IF Len(binCommands[i]) > 0
                    THEN Report("info", "binCommands", binCommands[i])
                    ELSE Report("error", "noBinAvailable", <<>>) >>
         printed == PrintedCommands(scripts[i], pkgCommands[i], <<>>)
     IN  IF printed.thrown
         THEN /\ output' = [output EXCEPT ![i] = @ \o head]
              /\ result' = [result EXCEPT ![i] = InvariantViolation("Action must exists")]
              /\ pc' = [pc EXCEPT ![i] = "done"]
         ELSE IF OffersQuestion(pkgCommands[i])
         THEN /\ output' = [output EXCEPT ![i] = @ \o head \o
                    << Report("info", "possibleCommands", <<>>),
                       Report("list", "possibleCommands",
                              [names |-> pkgCommands[i], hints |-> printed.map]),
                       Report("question", "commandQuestion", <<>>) >>]
              /\ pc' = [pc EXCEPT ![i] = "question"]
              /\ UNCHANGED result
         ELSE /\ output' = [output EXCEPT ![i] = @ \o head \o
                    << Report("error", "noScriptsAvailable", <<>>) >>]
              /\ result' = [result EXCEPT ![i] = resolved]
              /\ pc' = [pc EXCEPT ![i] = "done"]
  /\ UNCHANGED << inputVars, args, scripts, binCommands, pkgCommands, folder,
                  action, cmds, started, wrapOutput >>

\* The question was answered: runCommand(answer.split(' ')).
QuestionAnswered(i, answer) ==
  /\ pc[i] = "question"
  /\ args' = [args EXCEPT ![i] = Split(answer)]
  /\ pc' = [pc EXCEPT ![i] = "runCommand"]
  /\ UNCHANGED << inputVars, scripts, binCommands, pkgCommands, folder, action,
                  cmds, started, output, result, wrapOutput >>

\* Variant of OnQuestionRejected: then() has no second callback.
OnQuestionRejectedUnhandled(out) ==
  [result |-> [kind |-> "QuestionError"], output |-> out]

\* Line 164, second callback of then(): the rejection of the question is
\* reported and the promise run awaits is fulfilled.
OnQuestionRejected(out) ==
  [result |-> resolved,
   output |-> Append(out, Report("error", "commandNotSpecified", <<>>))]

\* The question was rejected.
QuestionRejected(i) ==
  /\ pc[i] = "question"
  /\ output' = [output EXCEPT ![i] = OnQuestionRejected(@).output]
  /\ result' = [result EXCEPT ![i] = OnQuestionRejected(output[i]).result]
  /\ pc' = [pc EXCEPT ![i] = "done"]
  /\ UNCHANGED << inputVars, args, scripts, binCommands, pkgCommands, folder,
                  action, cmds, started, wrapOutput >>

(***************************************************************************)
(* Specification.                                                          *)
(***************************************************************************)
Next ==
  \E i \in Procs :
    \/ FsExists(i)
    \/ FsReaddir(i)
    \/ ScanPkgScripts(i)
    \/ RunCommand(i)
    \/ ExecStart(i)
    \/ ExecDone(i)
    \/ ExecFail(i)
    \/ LogEnv(i)
    \/ Fallback(i)
    \/ \E answer \in Answers : QuestionAnswered(i, answer)
    \/ QuestionRejected(i)

Spec == Init /\ [][Next]_vars

\* The inputs of two invocations of run() made in one process.
TwoPkgScripts ==
  [defined |-> TRUE, props |-> (sPreBuild :> sClean) @@ (sBuild :> sCompile)]

TwoBinFolders == <<[exists |-> TRUE, entries |-> <<sConstructor>>]>>

TwoArgsInputs == {<<>>, <<sBuild>>, <<sEnv>>, <<sBuld>>}

\* Two invocations of run() in one process; each starts at its own time,
\* as the other may run while it waits for fs.exists.
InitTwo ==
  /\ live = Procs
  /\ wrapOutput = undefined
  /\ pkgScripts = [i \in Procs |-> TwoPkgScripts]
  /\ binFolders = [i \in Procs |-> TwoBinFolders]
  /\ args \in [Procs -> TwoArgsInputs]
  /\ scripts = [i \in Procs |-> <<>>]
  /\ binCommands = [i \in Procs |-> <<>>]
  /\ pkgCommands = [i \in Procs |-> <<>>]
  /\ folder = [i \in Procs |-> 1]
  /\ pc = [i \in Procs |-> "exists"]
  /\ action = [i \in Procs |-> undefined]
  /\ cmds = [i \in Procs |-> <<>>]
  /\ started = [i \in Procs |-> <<>>]
  /\ output = [i \in Procs |-> <<>>]
  /\ result = [i \in Procs |-> pending]

SpecTwo == InitTwo /\ [][Next]_vars

(***************************************************************************)
(* Properties.                                                             *)
(***************************************************************************)
\* The table of invocation i is complete.
TableBuilt(i) == pc[i] \notin {"idle", "exists", "readdir", "pkgScripts"}

\* The names the manifest of invocation i declares.
Declared(i) == IF pkgScripts[i].defined THEN DOMAIN pkgScripts[i].props ELSE {}

\* The entries of a table for a name.
EntriesOf(m, name) == {k \in 1..Len(m) : m[k].key = name}

Stages(log) == [k \in 1..Len(log) |-> log[k].stage]

\* C1: once the table is built, every name the manifest declares maps to
\* the manifest's script body, also when a .bin folder lists the same name,
\* and no name has two entries in the table.
C1_ManifestOverridesBin ==
  \A i \in live :
    TableBuilt(i) =>
      /\ \A n \in Declared(i) :
           /\ MapGet(scripts[i], n) = pkgScripts[i].props[n]
           /\ Cardinality(EntriesOf(scripts[i], n)) = 1
      /\ \A n \in MapKeys(scripts[i]) : Cardinality(EntriesOf(scripts[i], n)) = 1

\* A built table for a name that a listed .bin entry and the manifest share.
C1_Witness ==
  \E i \in live :
    /\ TableBuilt(i)
    /\ \E n \in Declared(i) :
         /\ \E k \in 1..Len(binCommands[i]) : binCommands[i][k] = n
         /\ MapGet(scripts[i], n) = pkgScripts[i].props[n]

\* The steps C2 expects for an action: the pre hook if declared, the action,
\* the post hook if declared.
ExpectedStages(i, act) ==
  (IF sPre \o act \in Declared(i) THEN <<sPre \o act>> ELSE <<>>)
  \o <<act>> \o
  (IF sPost \o act \in Declared(i) THEN <<sPost \o act>> ELSE <<>>)

\* C2: for an action the manifest declares, when run ends without a step
\* having failed the steps executed are exactly pre<action> if declared,
\* the action, post<action> if declared, in this order.
C2_HookOrder ==
  \A i \in live :
    (/\ pc[i] = "done"
     /\ action[i] \in Declared(i)
     /\ result[i].kind # "ExecError")
    => Stages(started[i]) = ExpectedStages(i, action[i])

\* C3: of the steps executed, exactly the one whose stage is the requested
\* action has the trailing arguments appended to its table command; a hook
\* is executed with its manifest text as it is.
C3_ArgsOnlyOnAction ==
  \A i \in live :
    /\ Len(started[i]) > 0 =>
         Cardinality({k \in 1..Len(cmds[i]) : cmds[i][k].stage = action[i]}) = 1
    /\ \A k \in 1..Len(started[i]) :
         LET s == started[i][k]
         IN  IF s.stage = action[i]
             THEN s.cmd = MapGet(scripts[i], action[i]) \o sSpace \o
                          Join([j \in 1..Len(args[i]) |-> quoteForShell(args[i][j])], sSpace)
             ELSE /\ s.stage \in Declared(i)
                  /\ s.cmd = pkgScripts[i].props[s.stage]

\* Both hooks and the action were executed with a trailing argument given.
C3_Witness ==
  \E i \in live :
    /\ Len(started[i]) = 3
    /\ Len(args[i]) > 0
    /\ started[i][2].stage = action[i]
    /\ started[i][1].cmd = sClean
    /\ started[i][3].cmd = sNotify

\* C4: for an action that is in the table and that the manifest does not
\* declare, a run that ends without error executed exactly one step, the
\* action with the table's command, and no hook.
C4_BinOnlySingleStep ==
  \A i \in live :
    (/\ pc[i] = "done"
     /\ result[i] = resolved
     /\ action[i] # undefined
     /\ MapHas(scripts[i], action[i])
     /\ action[i] \notin Declared(i))
    => /\ Len(started[i]) = 1
       /\ started[i][1].stage = action[i]
       /\ cmds[i] = <<Step(action[i], MapGet(scripts[i], action[i]))>>

\* The names the table knows: the .bin entries and the manifest's scripts.
KnownNames(i) == MapKeys(scripts[i])

\* C5: an action other than env that neither the manifest nor the table has
\* ends runCommand with the CommandNotFound error naming the action, no step
\* is executed, and the error has no suggestion when every known name is at
\* edit distance 2 or more.
C5_NotFound ==
  \A i \in live :
    (/\ pc[i] = "done"
     /\ action[i] # undefined
     /\ action[i] # sEnv
     /\ action[i] \notin Declared(i)
     /\ ~MapHas(scripts[i], action[i]))
    => /\ result[i].kind = "MessageError"
       /\ result[i].action = action[i]
       /\ started[i] = <<>>
       /\ (\A n \in KnownNames(i) : leven(n, action[i]) >= 2)
            => result[i].didYouMean = undefined

\* C6: when the action is not found and a known name is at edit distance
\* below 2, the error suggests such a name.
C6_DidYouMean ==
  \A i \in live :
    (/\ result[i].kind = "MessageError"
     /\ \E n \in KnownNames(i) : leven(n, action[i]) < 2)
    => /\ result[i].didYouMean \in KnownNames(i)
       /\ leven(result[i].didYouMean, action[i]) < 2

\* The environment was logged by invocation i.
EnvLogged(i) == \E k \in 1..Len(output[i]) : output[i][k].key = "env"

\* C7 as stated: the action env always prints the environment and executes
\* no step, whatever the manifest and the .bin folders hold.
C7_EnvAlwaysBuiltIn ==
  \A i \in live :
    (pc[i] = "done" /\ action[i] = sEnv)
    => /\ EnvLogged(i)
       /\ started[i] = <<>>

\* C7 amended: the action env prints the environment, executes no step and
\* completes when the table has no entry named env; when the table has one,
\* the environment is not printed.
C7_EnvBuiltInWhenUndeclared ==
  \A i \in live :
    (pc[i] = "done" /\ action[i] = sEnv)
    => IF MapHas(scripts[i], sEnv)
       THEN ~EnvLogged(i)
       ELSE /\ EnvLogged(i)
            /\ started[i] = <<>>
            /\ cmds[i] = <<>>
            /\ result[i] = resolved

\* env was printed although the table and the manifest have other names.
C7_Witness ==
  \E i \in live :
    /\ pc[i] = "done"
    /\ action[i] = sEnv
    /\ EnvLogged(i)
    /\ Len(scripts[i]) > 0
    /\ Declared(i) # {}

\* C8: a failed step is the last step started, its error is the outcome of
\* run, and every step was started once, in the order of the list.
C8_FailureHalts ==
  \A i \in live :
    /\ Len(started[i]) <= Len(cmds[i])
    /\ \A k \in 1..Len(started[i]) :
         /\ started[i][k].stage = cmds[i][k].stage
         /\ started[i][k].state = "failed" =>
              /\ k = Len(started[i])
              /\ pc[i] = "done"
              /\ result[i].kind = "ExecError"
              /\ result[i].stage = started[i][k].stage

\* The pre hook of a three-step list failed and nothing else was started.
C8_Witness ==
  \E i \in live :
    /\ Len(cmds[i]) = 3
    /\ Len(started[i]) = 1
    /\ started[i][1].state = "failed"
    /\ pc[i] = "done"

\* C9: at most one step of an invocation is running, and every step before
\* the last one started has completed.
C9_OneStepAtATime ==
  \A i \in live :
    /\ Cardinality(Running(started[i])) <= 1
    /\ \A k \in 1..(Len(started[i]) - 1) : started[i][k].state = "done"

\* The second step runs after the first has completed.
C9_Witness ==
  \E i \in live :
    /\ Len(started[i]) = 2
    /\ started[i][1].state = "done"
    /\ started[i][2].state = "running"

\* The orders in which n folders can be iterated.
Orders(n) == {p \in [1..n -> 1..n] : \A a, b \in 1..n : p[a] = p[b] => a = b}

\* The existing folders that list a name.
ListedIn(folders, name) ==
  {k \in 1..Len(folders) :
     folders[k].exists /\ \E j \in 1..Len(folders[k].entries) : folders[k].entries[j] = name}

\* C10 as stated: whatever the order in which the folders are iterated, the
\* table has the names and the commands of the table that was built.
C10_OrderIndependent ==
  \A i \in live :
    TableBuilt(i) =>
      \A p \in Orders(Len(binFolders[i])) :
        LET t == FinalTable(binFolders[i], p, pkgScripts[i])
        IN  /\ MapKeys(t) = MapKeys(scripts[i])
            /\ \A n \in MapKeys(t) : MapGet(t, n) = MapGet(scripts[i], n)

\* C10 amended: the order of the folders changes neither the names of the
\* table nor the command of a name that the manifest declares or that at
\* most one existing folder lists; a name that several folders list and the
\* manifest does not declare has the path in the folder iterated last.
C10_OrderIndependentUnlessListedTwice ==
  \A i \in live :
    TableBuilt(i) =>
      \A p \in Orders(Len(binFolders[i])) :
        LET t == FinalTable(binFolders[i], p, pkgScripts[i])
        IN  /\ MapKeys(t) = MapKeys(scripts[i])
            /\ \A n \in MapKeys(t) :
                 LET dirs == ListedIn(binFolders[i], n)
                 IN  IF n \in Declared(i) \/ Cardinality(dirs) <= 1
                     THEN MapGet(t, n) = MapGet(scripts[i], n)
                     ELSE LET last == CHOOSE a \in 1..Len(p) :
                                        /\ p[a] \in dirs
                                        /\ \A b \in 1..Len(p) : p[b] \in dirs => b <= a
                          IN  MapGet(t, n) = quoteForShell(PathJoin(FolderPath(p[last]), n))

\* A built table with a name listed by two folders and one listed by a
\* single folder or declared by the manifest.
C10_Witness ==
  \E i \in live :
    /\ TableBuilt(i)
    /\ Len(binFolders[i]) >= 2
    /\ \E n \in MapKeys(scripts[i]) : Cardinality(ListedIn(binFolders[i], n)) = 2

\* Invocation i has reached the loop of line 111.
ExecutesPlan(i) == pc[i] \in {"exec", "await"} \/ Len(started[i]) > 0

\* C11: an invocation that is about to start, or has started, a step finds
\* YARN_WRAP_OUTPUT set to 'false'.
C11_FlagSetBeforeFirstStep ==
  \A i \in live : ExecutesPlan(i) => wrapOutput = sFalse

\* The first step of a three-step list is running with the flag set.
C11_Witness ==
  \E i \in live :
    /\ Len(cmds[i]) = 3
    /\ Len(started[i]) = 1
    /\ started[i][1].state = "running"
    /\ wrapOutput = sFalse

\* C12: with two invocations in one process, an invocation that executes no
\* plan never finds the flag set, whatever the other invocation does or has
\* done.
C12_FlagScopedToInvocation ==
  \A i \in live : ~ExecutesPlan(i) => wrapOutput = undefined

\* Invocation i was called without arguments and nothing was typed at the
\* question, if one was asked.
NoActionGiven(i) == TableBuilt(i) /\ pc[i] # "fallback" /\ args[i] = <<>> /\ action[i] = undefined

\* C13: without an action, with no manifest script and with executables,
\* run reports 'command not specified', the executables and 'no scripts
\* available', asks no question, executes nothing and completes.
C13_NoScriptsNoQuestion ==
  \A i \in live :
    (NoActionGiven(i) /\ Len(pkgCommands[i]) = 0 /\ Len(binCommands[i]) > 0)
    => /\ output[i] = << Report("error", "commandNotSpecified", <<>>),
                         Report("info", "binCommands", binCommands[i]),
                         Report("error", "noScriptsAvailable", <<>>) >>
       /\ pc[i] = "done"
       /\ result[i] = resolved
       /\ started[i] = <<>>

\* The fallback ended for a manifest without scripts and two executables.
C13_Witness ==
  \E i \in live :
    /\ NoActionGiven(i)
    /\ Len(pkgCommands[i]) = 0
    /\ Len(binCommands[i]) = 2
    /\ pc[i] = "done"

\* C14: when the question is rejected, run reports 'command not specified'
\* after it, executes no step, leaves the flag unset and completes without
\* an error.
C14_RejectedQuestion ==
  \A i \in live :
    (pc[i] = "done" /\ Asked(output[i]) /\ action[i] = undefined)
    => /\ output[i][Len(output[i])] = Report("error", "commandNotSpecified", <<>>)
       /\ output[i][Len(output[i]) - 1].level = "question"
       /\ started[i] = <<>>
       /\ cmds[i] = <<>>
       /\ wrapOutput = undefined
       /\ result[i] = resolved

\* A question was asked and rejected.
C14_Witness ==
  \E i \in live :
    /\ pc[i] = "done"
    /\ Asked(output[i])
    /\ action[i] = undefined
    /\ result[i] = resolved

\* C15: an action the manifest declares with the empty string as its body
\* gets the list pre hook if declared, action with the empty command, post
\* hook if declared, and runCommand does not end in an invariant failure.
C15_EmptyBodyIsValid ==
  \A i \in live :
    (/\ pc[i] = "done"
     /\ action[i] \in Declared(i)
     /\ pkgScripts[i].props[action[i]] = <<>>)
    => /\ result[i].kind # "InvariantViolation"
       /\ Stages(cmds[i]) = ExpectedStages(i, action[i])
       /\ \E k \in 1..Len(cmds[i]) : cmds[i][k] = Step(action[i], <<>>)
       /\ Len(started[i]) > 0

\* The fallback of invocation i has made its first report.
FallbackRan(i) == Len(output[i]) > 0 /\ output[i][1].key = "commandNotSpecified"

\* C16: in the fallback with manifest scripts, also ones with an empty body,
\* every script name is listed with its table command and the question is
\* asked exactly once, whatever the .bin folders hold.
C16_ScriptsListedAndAsked ==
  \A i \in live :
    (FallbackRan(i) /\ Len(pkgCommands[i]) > 0)
    => /\ Cardinality({k \in 1..Len(output[i]) : output[i][k].level = "question"}) = 1
       /\ \E k \in 1..Len(output[i]) :
            /\ output[i][k].level = "list"
            /\ output[i][k].data.names = pkgCommands[i]
            /\ \A j \in 1..Len(pkgCommands[i]) :
                 MapGet(output[i][k].data.hints, pkgCommands[i][j])
                   = pkgScripts[i].props[pkgCommands[i][j]]

\* C17: the action and the trailing arguments taken from an answer are never
\* empty tokens.
C17_NoEmptyTokens ==
  \A i \in live :
    (Asked(output[i]) /\ action[i] # undefined)
    => /\ action[i] # <<>>
       /\ \A k \in 1..Len(args[i]) : args[i][k] # <<>>

\* C18: an action the manifest does not declare and the table does not have
\* ends in CommandNotFound or, for env, in the built-in, with no command
\* built, and never in an invariant failure; a hook is a declared name.
C18_DeclaredNamesOnly ==
  \A i \in live :
    (TableBuilt(i) /\ action[i] # undefined)
    => /\ \A k \in 1..Len(cmds[i]) :
            /\ cmds[i][k].cmd # undefined
            /\ cmds[i][k].stage # action[i] => cmds[i][k].stage \in Declared(i)
       /\ (action[i] \notin Declared(i) /\ ~MapHas(scripts[i], action[i]))
            => /\ cmds[i] = <<>>
               /\ result[i].kind # "InvariantViolation"
               /\ (pc[i] = "done" /\ action[i] # sEnv) => result[i].kind = "MessageError"

\* C19: after an answer to the question, an action that is not found ends
\* run with the CommandNotFound error and a failed step with the error of
\* the step; 'command not specified' is reported once, before the question.
C19_ErrorsAfterAnswerPropagate ==
  \A i \in live :
    (pc[i] = "done" /\ Asked(output[i]) /\ action[i] # undefined)
    => /\ Cardinality({k \in 1..Len(output[i]) :
                         output[i][k].key = "commandNotSpecified"}) = 1
       /\ (/\ action[i] # sEnv
           /\ ~InPkgScripts(pkgScripts[i], action[i])
           /\ ~MapHas(scripts[i], action[i]))
            => result[i].kind = "MessageError"
       /\ (\E k \in 1..Len(started[i]) : started[i][k].state = "failed")
            => result[i].kind = "ExecError"

\* A step of the answered action failed and run ended with its error.
C19_Witness ==
  \E i \in live :
    /\ pc[i] = "done"
    /\ Asked(output[i])
    /\ action[i] # undefined
    /\ \E k \in 1..Len(started[i]) : started[i][k].state = "failed"
    /\ result[i].kind = "ExecError"

\* C20: the flag changes only in the step of runCommand that goes on to
\* execute its list; every other step of run leaves it as it was.
C20_FlagWrittenOnlyWhenExecuting ==
  [][wrapOutput' # wrapOutput =>
       \E i \in live : /\ pc[i] = "runCommand"
                       /\ pc'[i] = "exec"
                       /\ Len(cmds'[i]) > 0]_vars

\* A run ended in CommandNotFound with the flag still unset.
C20_Witness ==
  \E i \in live :
    /\ pc[i] = "done"
    /\ result[i].kind = "MessageError"
    /\ started[i] = <<>>
    /\ wrapOutput = undefined

=============================================================================
